---- MODULE Spec2Model ----
(***************************************************************************)
(* A model of app.py: the three Flask request handlers (/status, /logs,    *)
(* /containers), the process-wide docker_client handle set once at import, *)
(* and the log-line parsing of /logs.                                      *)
(*                                                                         *)
(* Text is a sequence of lexical atoms.  The atoms are                     *)
(*   "T"   a zero-padded date-time, 19 characters YYYY-MM-DDTHH:MM:SS      *)
(*   "t"   the same instant spelled with a one-digit month (YYYY-M-DD...), *)
(*         which strptime accepts and isoformat() prints back as "T"       *)
(*   "."   a dot            "9"  a decimal digit       "Z"  a zone letter  *)
(*   " "   a space          "[" "]"  brackets          "\n" a line break   *)
(* The space is the only whitespace of the alphabet.                       *)
(*   "0xff" a byte that is not valid UTF-8                                 *)
(***************************************************************************)
EXTENDS Integers, Sequences, FiniteSets, TLC

\* Longest line typed in LineSpec.
MaxLineLen == 5
\* Most lines a container writes one at a time (before or after its burst).
MaxLines == 2
\* Lines a container writes in one burst.
BurstLen == 99
\* The tail=100 argument of container.logs().
tail == 100

None == "None"
NoArg == "NoArg"
SP == " "
NL == "\n"
BAD == "0xff"

VARIABLES
    docker_client,  \* the module-level handle: "client" or None
    engine_up,      \* whether the Docker daemon answers
    present,        \* whether container "c1" exists in the engine
    clog,           \* the log lines container "c1" has written, oldest first
    call,           \* what the last request was and what the engine did in it
    response,       \* the last HTTP response
    log_line,       \* LineSpec: the line being typed
    line_done,      \* LineSpec: whether the loop body has run on log_line
    line_out        \* LineSpec: what the loop body produced for log_line

vars == <<docker_client, engine_up, present, clog, call, response,
          log_line, line_done, line_out>>
service_vars == <<docker_client, engine_up, present, clog, call, response>>
line_vars == <<log_line, line_done, line_out>>

(***************************************************************************)
(* Python string operations                                                *)
(***************************************************************************)

\* The number of consecutive atoms of s from position i on that are in C.
RECURSIVE run(_, _, _)
run(s, i, C) ==
    IF i <= Len(s) /\ s[i] \in C THEN 1 + run(s, i + 1, C) ELSE 0

\* The position of the first atom c of s, or 0.
find(s, c) ==
    IF \E i \in 1..Len(s) : s[i] = c
    THEN CHOOSE i \in 1..Len(s) : s[i] = c /\ \A j \in 1..(i - 1) : s[j] # c
    ELSE 0

\* s.split(sep, 1): one part when sep does not occur, else two.
str_split1(s, sep) ==
    LET k == find(s, sep) IN
    IF k = 0 THEN <<s>>
    ELSE <<SubSeq(s, 1, k - 1), SubSeq(s, k + 1, Len(s))>>

\* The parts of s[lo..hi] between the separators (by halves, so that a long
\* text needs no deep recursion): the last part of the left half and the
\* first of the right half are one part.
RECURSIVE split_range(_, _, _, _)
split_range(s, sep, lo, hi) ==
    IF lo > hi THEN << <<>> >>
    ELSE IF lo = hi
    THEN IF s[lo] = sep THEN << <<>>, <<>> >> ELSE << <<s[lo]>> >>
    ELSE LET mid == (lo + hi) \div 2
             l == split_range(s, sep, lo, mid)
             r == split_range(s, sep, mid + 1, hi)
         IN  SubSeq(l, 1, Len(l) - 1) \o << l[Len(l)] \o r[1] >>
                 \o SubSeq(r, 2, Len(r))

\* s.split(sep): every part, the empty ones too.
str_split(s, sep) == split_range(s, sep, 1, Len(s))

(***************************************************************************)
(* datetime.strptime(s, '%Y-%m-%dT%H:%M:%S').isoformat()                   *)
(***************************************************************************)

\* A result is [ok |-> FALSE] for a raised ValueError, else the ISO string.
strptime_isoformat(s) ==
    IF s = <<"T">> \/ s = <<"t">>
    THEN [ok |-> TRUE, iso |-> "T"]
    ELSE [ok |-> FALSE, iso |-> None]

(***************************************************************************)
(* json.loads over the atoms: numbers 9+ and 9+.9+, arrays of at most one  *)
(* element (the alphabet has no comma), spaces allowed around values.      *)
(***************************************************************************)

JsonFail == [ok |-> FALSE, val |-> None, next |-> 0]
JsonNum(n, m) ==
    [t |-> "num", int |-> n, frac |-> m, items |-> <<>>]
JsonArr(items) ==
    [t |-> "arr", int |-> 0, frac |-> 0, items |-> items]

RECURSIVE nines(_)
nines(n) == IF n = 0 THEN 0 ELSE 10 * nines(n - 1) + 9

\* The JSON scanner skips the spaces around a value.
skip_ws(s, i) == i + run(s, i, {SP})

\* A number starting at s[i] = "9": the digits, then an optional .digits.
json_number(s, i) ==
    LET n == run(s, i, {"9"})
        j == i + n
        m == IF j <= Len(s) /\ s[j] = "." THEN run(s, j + 1, {"9"}) ELSE 0
    IN  IF m = 0
        THEN [ok |-> TRUE, val |-> JsonNum(nines(n), 0), next |-> j]
        ELSE [ok |-> TRUE, val |-> JsonNum(nines(n), m), next |-> j + 1 + m]

RECURSIVE json_value(_, _)
json_value(s, i) ==
    IF i > Len(s) THEN JsonFail
    ELSE IF s[i] = "9" THEN json_number(s, i)
    ELSE IF s[i] = "["
    THEN LET j == skip_ws(s, i + 1) IN
         IF j <= Len(s) /\ s[j] = "]"
         THEN [ok |-> TRUE, val |-> JsonArr(<<>>), next |-> j + 1]
         ELSE LET r == json_value(s, j) IN
              IF ~r.ok THEN JsonFail
              ELSE LET k == skip_ws(s, r.next) IN
                   IF k <= Len(s) /\ s[k] = "]"
                   THEN [ok |-> TRUE, val |-> JsonArr(<<r.val>>), next |-> k + 1]
                   ELSE JsonFail
    ELSE JsonFail

\* json.loads(s): [ok |-> FALSE] for a raised JSONDecodeError.
json_loads(s) ==
    LET r == json_value(s, skip_ws(s, 1)) IN
    IF r.ok /\ skip_ws(s, r.next) > Len(s)
    THEN [ok |-> TRUE, val |-> r.val]
    ELSE [ok |-> FALSE, val |-> None]

(***************************************************************************)
(* The body of the loop over the log lines                                 *)
(***************************************************************************)

LogEntry(ts, msg, isj) ==
    [timestamp |-> ts, message |-> msg, is_json |-> isj]

\* The except branch: the whole line as text, no timestamp.
except_entry(line) == LogEntry(None, line, FALSE)

\* A line that classifies the whole text when it cannot be split.
parse_line_classify_unsplit(line) ==
    LET parts == str_split1(line, SP) IN
    IF Len(parts) # 2
    THEN LET w == json_loads(line) IN
         [raised |-> FALSE,
          entry |-> IF w.ok THEN LogEntry(None, w.val, TRUE)
                    ELSE except_entry(line)]
    ELSE LET ts == strptime_isoformat(str_split1(parts[1], ".")[1]) IN
         IF ~ts.ok THEN [raised |-> FALSE, entry |-> except_entry(line)]
         ELSE LET js == json_loads(parts[2]) IN
              [raised |-> FALSE,
               entry |-> IF js.ok THEN LogEntry(ts.iso, js.val, TRUE)
                         ELSE LogEntry(ts.iso, parts[2], FALSE)]

\* A line whose timestamp error is not caught by the loop body.
parse_line_uncaught(line) ==
    LET parts == str_split1(line, SP) IN
    IF Len(parts) # 2 THEN [raised |-> FALSE, entry |-> except_entry(line)]
    ELSE LET ts == strptime_isoformat(str_split1(parts[1], ".")[1]) IN
         IF ~ts.ok THEN [raised |-> TRUE, entry |-> except_entry(line)]
         ELSE LET js == json_loads(parts[2]) IN
              [raised |-> FALSE,
               entry |-> IF js.ok THEN LogEntry(ts.iso, js.val, TRUE)
                         ELSE LogEntry(ts.iso, parts[2], FALSE)]

\* try: split, strptime, json.loads; except Exception: the whole line.
\* raised says whether an exception leaves the loop body (it never does).
parse_line(line) ==
    LET parts == str_split1(line, SP) IN
    IF Len(parts) # 2 THEN [raised |-> FALSE, entry |-> except_entry(line)]
    ELSE LET ts == strptime_isoformat(str_split1(parts[1], ".")[1]) IN
         IF ~ts.ok THEN [raised |-> FALSE, entry |-> except_entry(line)]
         ELSE LET js == json_loads(parts[2]) IN
              [raised |-> FALSE,
               entry |-> IF js.ok THEN LogEntry(ts.iso, js.val, TRUE)
                         ELSE LogEntry(ts.iso, parts[2], FALSE)]

\* A loop that keeps the empty lines too.
keep_line_always(line) == TRUE

\* if log_line:
keep_line(line) == line # <<>>

\* The loop over lines[lo..hi] (by halves): the entries appended, in order,
\* and whether an exception left the loop, which ends it.
RECURSIVE loop_range(_, _, _)
loop_range(lines, lo, hi) ==
    IF lo > hi THEN [raised |-> FALSE, logs |-> <<>>]
    ELSE IF lo = hi
    THEN IF ~keep_line(lines[lo]) THEN [raised |-> FALSE, logs |-> <<>>]
         ELSE LET p == parse_line(lines[lo]) IN
              IF p.raised THEN [raised |-> TRUE, logs |-> <<>>]
              ELSE [raised |-> FALSE, logs |-> <<p.entry>>]
    ELSE LET mid == (lo + hi) \div 2
             l == loop_range(lines, lo, mid)
         IN  IF l.raised THEN l
             ELSE LET r == loop_range(lines, mid + 1, hi) IN
                  [raised |-> r.raised, logs |-> l.logs \o r.logs]

\* structured_logs after the loop over the lines.
structured_logs(lines) == loop_range(lines, 1, Len(lines))

(***************************************************************************)
(* The Docker engine, as the handlers call it                              *)
(***************************************************************************)

\* client.ping() / containers.list(): "ok", or "error" for a raised exception.
engine_call(up, fault) == IF up /\ ~fault THEN "ok" ELSE "error"

\* docker_client.containers.get(container_id).
containers_get(up, fault, here, container_id) ==
    IF ~up \/ fault THEN "error"
    ELSE IF here /\ container_id = "c1" THEN "ok"
    ELSE "NotFound"

\* The last n lines of a history.
last_lines(history, n) ==
    IF Len(history) <= n THEN history
    ELSE SubSeq(history, Len(history) - n + 1, Len(history))

\* A fetch that asks for the whole history.
fetch_lines_all(history, n) == history

\* The lines container.logs(tail=n, ...) returns.
fetch_lines(history, n) == last_lines(history, n)

\* The bytes of lines[lo..hi], each line ended by a line break (by halves).
RECURSIVE join_range(_, _, _)
join_range(lines, lo, hi) ==
    IF lo > hi THEN <<>>
    ELSE IF lo = hi THEN lines[lo] \o <<NL>>
    ELSE LET mid == (lo + hi) \div 2 IN
         join_range(lines, lo, mid) \o join_range(lines, mid + 1, hi)

\* The bytes container.logs() returns for those lines.
raw_bytes(lines) == join_range(lines, 1, Len(lines))

\* bytes.decode('utf-8'): raises on a byte that is not UTF-8.
decode_utf8(bytes) ==
    IF \E i \in 1..Len(bytes) : bytes[i] = BAD
    THEN [ok |-> FALSE, text |-> <<>>]
    ELSE [ok |-> TRUE, text |-> bytes]

\* get_docker_client() at import: the handle, or None when the ping fails.
get_docker_client(up) == IF up THEN "client" ELSE None

(***************************************************************************)
(* The responses                                                           *)
(***************************************************************************)

Response(code, err, has, id, logs, list) ==
    [code |-> code, error |-> err, has_logs |-> has, container_id |-> id,
     logs |-> logs, containers |-> list]

ErrorResponse(code) == Response(code, TRUE, FALSE, NoArg, <<>>, <<>>)

NoResponse == Response(0, FALSE, FALSE, NoArg, <<>>, <<>>)

NoCall ==
    [route |-> "none", container_id |-> NoArg, client |-> None,
     reachable |-> FALSE, get |-> "skipped", logs |-> "skipped",
     decode |-> "skipped", batch |-> <<>>, history_len |-> 0]

\* get_docker_status()
get_docker_status(client, ping) ==
    IF client = None THEN ErrorResponse(500)
    ELSE IF ping = "ok" THEN Response(200, FALSE, FALSE, NoArg, <<>>, <<>>)
    ELSE ErrorResponse(500)

\* list_containers()
list_containers(client, listing, here) ==
    IF client = None THEN ErrorResponse(500)
    ELSE IF listing = "ok"
    THEN Response(200, FALSE, FALSE, NoArg, <<>>,
                  IF here THEN <<"c1">> ELSE <<>>)
    ELSE ErrorResponse(500)

\* A handler without the except docker.errors.NotFound clause.
get_container_logs_no_404(client, container_id, got, fetched, bytes) ==
    IF client = None THEN ErrorResponse(500)
    ELSE IF container_id \in {NoArg, ""} THEN ErrorResponse(400)
    ELSE IF got # "ok" THEN ErrorResponse(500)
    ELSE IF fetched # "ok" THEN ErrorResponse(500)
    ELSE LET logs == decode_utf8(bytes) IN
         IF ~logs.ok THEN ErrorResponse(500)
         ELSE LET out == structured_logs(str_split(logs.text, NL)) IN
              IF out.raised THEN ErrorResponse(500)
              ELSE Response(200, FALSE, TRUE, container_id, out.logs, <<>>)

\* get_container_logs(): got is what containers.get did, fetched what
\* container.logs did, bytes what it returned.
get_container_logs(client, container_id, got, fetched, bytes) ==
    IF client = None THEN ErrorResponse(500)
    ELSE IF container_id \in {NoArg, ""} THEN ErrorResponse(400)
    ELSE IF got = "NotFound" THEN ErrorResponse(404)
    ELSE IF got # "ok" THEN ErrorResponse(500)
    ELSE IF fetched # "ok" THEN ErrorResponse(500)
    ELSE LET logs == decode_utf8(bytes) IN
         IF ~logs.ok THEN ErrorResponse(500)
         ELSE LET out == structured_logs(str_split(logs.text, NL)) IN
              IF out.raised THEN ErrorResponse(500)
              ELSE Response(200, FALSE, TRUE, container_id, out.logs, <<>>)

(***************************************************************************)
(* The service: state, requests, and what the engine does meanwhile        *)
(***************************************************************************)

\* structured_logs before the loop.
NoOutput == [raised |-> FALSE, logs |-> <<>>]

\* The lines a container writes.
Lines ==
    { <<"T", ".", "9", "Z", SP, "[", "9", "]">>,  \* Docker's stamp, JSON
      <<"t", ".", "9", "Z", SP, "Z", SP, "9">>,   \* Docker's stamp, text
      <<"Z", SP, "9">>,                           \* no timestamp, a space
      <<"[", "]">>,                               \* no space at all
      <<>>,                                       \* an empty line
      <<BAD>> }                                   \* not UTF-8

\* The line of a burst.
BurstLine == <<"T", SP, "Z">>

ContainerIds == {NoArg, "", "c1", "zz"}

Init ==
    /\ \E up \in BOOLEAN :
          /\ engine_up = up
          /\ docker_client = get_docker_client(up)
    /\ present = TRUE
    /\ clog = <<>>
    /\ call = NoCall
    /\ response = NoResponse
    /\ log_line = <<>>
    /\ line_done = FALSE
    /\ line_out = NoOutput

EngineStops ==
    /\ engine_up
    /\ engine_up' = FALSE
    /\ UNCHANGED <<docker_client, present, clog, call, response, line_vars>>

EngineStarts ==
    /\ ~engine_up
    /\ engine_up' = TRUE
    /\ UNCHANGED <<docker_client, present, clog, call, response, line_vars>>

ContainerWrites(line) ==
    /\ present
    /\ \/ Len(clog) < MaxLines
       \/ Len(clog) >= BurstLen /\ Len(clog) < BurstLen + MaxLines
    /\ clog' = Append(clog, line)
    /\ UNCHANGED <<docker_client, engine_up, present, call, response, line_vars>>

\* A container that starts by writing BurstLen lines at once.
ContainerBursts ==
    /\ present
    /\ clog = <<>>
    /\ clog' = [i \in 1..BurstLen |-> BurstLine]
    /\ UNCHANGED <<docker_client, engine_up, present, call, response, line_vars>>

ContainerRemoved ==
    /\ present
    /\ present' = FALSE
    /\ clog' = <<>>
    /\ UNCHANGED <<docker_client, engine_up, call, response, line_vars>>

\* GET /status; fault: the ping fails although the engine was up.
StatusRequest(fault) ==
    /\ response' = get_docker_status(docker_client,
                                     engine_call(engine_up, fault))
    /\ call' = [NoCall EXCEPT !.route = "status", !.client = docker_client,
                              !.reachable = engine_up /\ ~fault]
    /\ UNCHANGED <<docker_client, engine_up, present, clog, line_vars>>

\* GET /containers; fault: the listing fails although the engine was up.
ContainersRequest(fault) ==
    /\ response' = list_containers(docker_client,
                                   engine_call(engine_up, fault), present)
    /\ call' = [NoCall EXCEPT !.route = "containers", !.client = docker_client,
                              !.reachable = engine_up /\ ~fault]
    /\ UNCHANGED <<docker_client, engine_up, present, clog, line_vars>>

\* GET /logs?container_id=...; fault names the engine call that fails
\* although the engine was up ("none", "get" or "logs").
LogsRequest(container_id, fault) ==
    LET asked == docker_client # None /\ container_id \notin {NoArg, ""}
        got == containers_get(engine_up, fault = "get", present, container_id)
        fetched == engine_call(engine_up, fault = "logs")
        batch == fetch_lines(clog, tail)
        bytes == raw_bytes(batch)
        did_get == asked
        did_logs == did_get /\ got = "ok"
        did_decode == did_logs /\ fetched = "ok"
    IN  /\ response' = get_container_logs(docker_client, container_id,
                                          got, fetched, bytes)
        /\ call' = [route |-> "logs",
                    container_id |-> container_id,
                    client |-> docker_client,
                    reachable |-> engine_up /\ fault = "none",
                    get |-> IF did_get THEN got ELSE "skipped",
                    logs |-> IF did_logs THEN fetched ELSE "skipped",
                    decode |-> IF ~did_decode THEN "skipped"
                               ELSE IF decode_utf8(bytes).ok THEN "ok"
                               ELSE "error",
                    batch |-> IF did_decode THEN batch ELSE <<>>,
                    history_len |-> IF did_decode THEN Len(clog) ELSE 0]
        /\ UNCHANGED <<docker_client, engine_up, present, clog, line_vars>>

Next ==
    \/ EngineStops
    \/ EngineStarts
    \/ \E line \in Lines : ContainerWrites(line)
    \/ ContainerBursts
    \/ ContainerRemoved
    \/ \E fault \in BOOLEAN : StatusRequest(fault)
    \/ \E fault \in BOOLEAN : ContainersRequest(fault)
    \/ \E id \in ContainerIds, fault \in {"none", "get", "logs"} :
          LogsRequest(id, fault)

Spec == Init /\ [][Next]_vars

(***************************************************************************)
(* One line through the loop body                                          *)
(***************************************************************************)

\* The service as started with the engine up, and no request made.
LineInit ==
    /\ engine_up = TRUE
    /\ docker_client = get_docker_client(TRUE)
    /\ present = TRUE
    /\ clog = <<>>
    /\ call = NoCall
    /\ response = NoResponse
    /\ log_line = <<>>
    /\ line_done = FALSE
    /\ line_out = NoOutput

Chars == {"T", "t", ".", "9", "Z", SP, "[", "]"}

TypeChar(c) ==
    /\ Len(log_line) < MaxLineLen
    /\ log_line' = Append(log_line, c)
    /\ line_done' = FALSE
    /\ line_out' = NoOutput
    /\ UNCHANGED service_vars

\* The loop of get_container_logs over the one line log_line.
DecodeLine ==
    /\ ~line_done
    /\ line_done' = TRUE
    /\ line_out' = structured_logs(<<log_line>>)
    /\ UNCHANGED <<log_line, service_vars>>

LineNext ==
    \/ \E c \in Chars : TypeChar(c)
    \/ DecodeLine

LineSpec == LineInit /\ [][LineNext]_vars

(***************************************************************************)
(* Properties of the service (Spec)                                        *)
(***************************************************************************)

\* The lines of a batch that are not empty, in order.
NonEmpty(lines) == SelectSeq(lines, LAMBDA l : l # <<>>)

\* C1: a /logs request without a container_id (absent or empty) is answered
\* 400, whatever the handle and the engine are.
C1_MissingIdIs400 ==
    (call.route = "logs" /\ call.container_id \in {NoArg, ""})
        => response.code = 400

\* C2: for a /logs request with a container_id, an id the engine reports
\* unknown is answered 404; a failure of containers.get, of container.logs or
\* of the decoding is answered 500; both carry an error and no logs; and 200
\* is answered only when every step succeeded.
C2_CollaboratorFailures ==
    (call.route = "logs" /\ call.container_id \notin {NoArg, ""}) =>
        /\ call.get = "NotFound" => response.code = 404
        /\ (call.get = "error" \/ call.logs = "error" \/ call.decode = "error")
               => response.code = 500
        /\ response.code \in {404, 500} =>
               response.error /\ ~response.has_logs /\ response.logs = <<>>
        /\ response.code = 200 =>
               call.get = "ok" /\ call.logs = "ok" /\ call.decode = "ok"

\* The bytes did not decode, and the answer is a bare 500.
C2_Witness ==
    /\ call.route = "logs"
    /\ call.get = "ok" /\ call.logs = "ok" /\ call.decode = "error"
    /\ response.code = 500 /\ response.error /\ ~response.has_logs

\* C3: whatever lines the engine returned, the request is answered 200 with
\* one entry for every non-empty line: no line that fails to split, to parse
\* as a timestamp or as JSON ends the loop or turns the answer into an error.
C3_ParseFailuresContained ==
    (call.route = "logs" /\ call.decode = "ok") =>
        /\ response.code = 200 /\ response.has_logs /\ ~response.error
        /\ Len(response.logs) = Len(NonEmpty(call.batch))

\* A full batch that ends with a line whose token is no timestamp, then a
\* line with Docker's stamp and JSON: both have their entry, the first
\* without timestamp, the second parsed.
C3_Witness ==
    /\ call.route = "logs" /\ response.code = 200
    /\ Len(call.batch) = tail
    /\ call.batch[tail - 1] = <<"Z", SP, "9">>
    /\ call.batch[tail] = <<"T", ".", "9", "Z", SP, "[", "9", "]">>
    /\ Len(response.logs) = tail
    /\ response.logs[tail - 1].timestamp = None
    /\ response.logs[tail].is_json

\* C4: a request answers 500 only when the engine was unreachable during
\* that very call (or, for /logs, the bytes did not decode), also after a
\* start at which the handle could not be set.
C4_UnavailableOnlyWhenUnreachable ==
    (call.route # "none" /\ response.code = 500)
        => (~call.reachable \/ call.decode = "error")

\* C9: a 200 answer of /logs holds at most tail = 100 entries.
C9_AtMostTailEntries ==
    response.has_logs => Len(response.logs) <= tail

\* The container had written more than 100 lines, and exactly 100 entries
\* are returned.
C9_Witness ==
    /\ response.has_logs
    /\ call.history_len > tail
    /\ Len(response.logs) = tail

\* C10: the entries of a 200 answer are, in order, the entries of the
\* non-empty lines of the batch: none for an empty line, one for every other.
C10_OneEntryPerNonEmptyLine ==
    response.has_logs =>
        LET kept == NonEmpty(call.batch) IN
        /\ Len(response.logs) = Len(kept)
        /\ \A i \in 1..Len(kept) : response.logs[i] = parse_line(kept[i]).entry

\* A full batch with an empty line between a stamped line and a line with
\* no space: the empty line has no entry, the other two keep their order.
C10_Witness ==
    /\ response.has_logs
    /\ Len(call.batch) = tail
    /\ call.batch[tail - 1] = <<>>
    /\ call.batch[tail] = <<"[", "]">>
    /\ Len(response.logs) = tail - 1
    /\ response.logs[tail - 1].message = <<"[", "]">>
    /\ response.logs[tail - 2].timestamp = "T"

(***************************************************************************)
(* Properties of one line (LineSpec)                                       *)
(***************************************************************************)

Whitespace == {SP}

HasWhitespace(s) == \E i \in 1..Len(s) : s[i] \in Whitespace

FirstWhitespace(s) ==
    CHOOSE i \in 1..Len(s) :
        s[i] \in Whitespace /\ \A j \in 1..(i - 1) : s[j] \notin Whitespace

\* The text before and after the first whitespace.
LeftToken(s) == SubSeq(s, 1, FirstWhitespace(s) - 1)
Remainder(s) == SubSeq(s, FirstWhitespace(s) + 1, Len(s))

\* T, T.9+, TZ, T.9+Z: a date-time, then an optional fraction, then an
\* optional zone.
IsStamp(tok) ==
    /\ tok # <<>>
    /\ tok[1] = "T"
    /\ LET digits == IF Len(tok) >= 2 /\ tok[2] = "."
                     THEN run(tok, 3, {"9"}) ELSE 0
           after == IF Len(tok) >= 2 /\ tok[2] = "."
                    THEN SubSeq(tok, 3 + digits, Len(tok))
                    ELSE SubSeq(tok, 2, Len(tok))
       IN  /\ (Len(tok) >= 2 /\ tok[2] = ".") => digits >= 1
           /\ after \in {<<>>, <<"Z">>}

\* The code's own test of a token.
TokenParses(tok) == strptime_isoformat(str_split1(tok, ".")[1]).ok

\* The one entry of a decoded line.
TheEntry == line_out.logs[1]

\* The entry that holds payload p classified: the parsed value when p is a
\* JSON document, else p itself.
Classified(entry, p) ==
    IF json_loads(p).ok
    THEN entry.is_json /\ entry.message = json_loads(p).val
    ELSE ~entry.is_json /\ entry.message = p

\* C5: a line whose first token is a date-time with an optional fraction and
\* an optional zone gets the timestamp of the date-time alone.
C5_TimestampOfPrefix ==
    (line_done /\ find(log_line, SP) > 0
               /\ IsStamp(str_split1(log_line, SP)[1])) =>
        /\ Len(line_out.logs) = 1
        /\ TheEntry.timestamp = strptime_isoformat(<<"T">>).iso

\* C6: a non-empty line's payload is the text after the first whitespace,
\* and the entry holds it classified, whether or not the token before it
\* parsed as a timestamp.
C6_PayloadClassified ==
    (line_done /\ HasWhitespace(log_line)) =>
        /\ Len(line_out.logs) = 1
        /\ Classified(TheEntry, Remainder(log_line))

\* C7: a line with whitespace whose left token is no timestamp gets an entry
\* without timestamp whose payload is the text after the first whitespace.
C7_FailedStampKeepsRemainder ==
    (line_done /\ HasWhitespace(log_line)
               /\ ~TokenParses(LeftToken(log_line))) =>
        /\ Len(line_out.logs) = 1
        /\ TheEntry.timestamp = None
        /\ Classified(TheEntry, Remainder(log_line))

\* C8: a non-empty line without whitespace gets exactly one entry: no
\* timestamp, the whole line as text, not JSON; and nothing is raised.
C8_NoWhitespaceLine ==
    (line_done /\ log_line # <<>> /\ ~HasWhitespace(log_line)) =>
        /\ ~line_out.raised
        /\ Len(line_out.logs) = 1
        /\ ~TheEntry.is_json
        /\ TheEntry.timestamp = None
        /\ TheEntry.message = log_line

\* A JSON document with no space before it is kept as text.
C8_Witness ==
    /\ line_done
    /\ log_line = <<"[", "9", "]">>
    /\ line_out.logs = <<LogEntry(None, <<"[", "9", "]">>, FALSE)>>

====
